---- MODULE Spec2Model ----
(***************************************************************************)
(* Model of the Mini-HCM time tracking calculator                          *)
(* (timetracking/functions/timeCalculator.js), of its HTTP endpoint        *)
(* (timetracking/backend/server.js, functions/index.cjs), of the           *)
(* PunchClock component (timetracking/src/components/timeTracker.tsx) and  *)
(* of the admin dashboard's delete and edit handlers                       *)
(* (timetracking/src/hooks/useAdminDashboard.ts) over the Firestore        *)
(* collections 'attendance' and 'dailySummary'.                            *)
(*                                                                         *)
(* Instants are integers: milliseconds since 2025-09-30T00:00:00Z (day 0). *)
(* 2025-10-01 is day 1, 2025-10-02 is day 2.  A moment is a record         *)
(* [t |-> instant, z |-> zone]; an invalid moment has t = NaN.             *)
(* Time zones are read through their UTC offset, which is constant for     *)
(* each modelled zone over the modelled dates (no DST change in the first  *)
(* days of October 2025).                                                  *)
(***************************************************************************)
EXTENDS Integers, Sequences, FiniteSets, TLC

\* pc, call, ret: a caller of the calculator (its position, the arguments it
\*     chose, what came back)
\* db: the Firestore collections 'attendance' and 'dailySummary'
\* clock: the browser's clock
\* tabs: the React state of each open PunchClock
\* tasks: the handler invocations that stand at an await
VARIABLES pc, call, ret, db, clock, tabs, tasks

calcVars == <<pc, call, ret>>
appVars == <<db, clock, tabs, tasks>>
vars == <<pc, call, ret, db, clock, tabs, tasks>>

(***************************************************************************)
(* Bounds of the checked input space.                                      *)
(***************************************************************************)
\* calendar days 1..MaxDay carry punches
MaxDay == 2
\* longest list handed to batchCalculateTimeMetrics
MaxBatch == 3

(***************************************************************************)
(* JavaScript / moment values.                                             *)
(***************************************************************************)
MsPerSecond == 1000
MsPerMinute == 60 * MsPerSecond
MsPerHour == 60 * MsPerMinute
MsPerDay == 24 * MsPerHour

\* the number NaN (an invalid moment's time value, and any arithmetic on it)
NaN == -999999999

isNaN(x) == x = NaN

\* An ISO-8601 string "2025-10-<d>T<h>:<mi>:<s>.<ms><off>", off in minutes
\* east of UTC ("Z" is 0, "+08:00" is 480).
Iso(d, h, mi, s, ms, off) ==
    [kind |-> "iso", d |-> d, h |-> h, mi |-> mi, s |-> s, ms |-> ms, off |-> off]

\* a missing field
undefined == [kind |-> "undefined", d |-> 0, h |-> 0, mi |-> 0, s |-> 0, ms |-> 0, off |-> 0]
\* the value null
null == [kind |-> "null", d |-> 0, h |-> 0, mi |-> 0, s |-> 0, ms |-> 0, off |-> 0]
\* a non-empty string that is no date ("not-a-date")
garbage == [kind |-> "garbage", d |-> 0, h |-> 0, mi |-> 0, s |-> 0, ms |-> 0, off |-> 0]

\* JavaScript truthiness of a punch value: !x is true of undefined and null
falsy(x) == x.kind \in {"undefined", "null"}

\* minutes east of UTC of an IANA zone during the modelled days
UtcOffset(timezone) ==
    CASE timezone = "UTC" -> 0
      [] timezone = "Asia/Manila" -> 480
      [] timezone = "America/New_York" -> -240

\* moment(input).tz(timezone): the instant the string denotes, seen in the zone
momentTz(input, timezone) ==
    [t |-> IF input.kind = "iso"
           THEN input.d * MsPerDay + input.h * MsPerHour + input.mi * MsPerMinute
                + input.s * MsPerSecond + input.ms - input.off * MsPerMinute
           ELSE NaN,
     z |-> timezone]

isValid(m) == ~isNaN(m.t)

\* wall-clock milliseconds of a moment in its own zone
LocalMs(m) == m.t + UtcOffset(m.z) * MsPerMinute

FromLocal(l, z) == [t |-> l - UtcOffset(z) * MsPerMinute, z |-> z]

\* moment getters
hour(m) == (LocalMs(m) % MsPerDay) \div MsPerHour
minute(m) == (LocalMs(m) % MsPerHour) \div MsPerMinute
second(m) == (LocalMs(m) % MsPerMinute) \div MsPerSecond
millisecond(m) == LocalMs(m) % MsPerSecond
\* local calendar day of a moment (day number)
date(m) == LocalMs(m) \div MsPerDay

\* moment setters: replace one wall-clock field, keep the others
setHour(m, h) ==
    IF isValid(m) THEN FromLocal(LocalMs(m) - hour(m) * MsPerHour + h * MsPerHour, m.z) ELSE m
setMinute(m, mi) ==
    IF isValid(m) THEN FromLocal(LocalMs(m) - minute(m) * MsPerMinute + mi * MsPerMinute, m.z) ELSE m
setSecond(m, s) ==
    IF isValid(m) THEN FromLocal(LocalMs(m) - second(m) * MsPerSecond + s * MsPerSecond, m.z) ELSE m
setMillisecond(m, ms) ==
    IF isValid(m) THEN FromLocal(LocalMs(m) - millisecond(m) + ms, m.z) ELSE m

\* moment comparisons: every comparison with an invalid moment is false
isBefore(a, b) == isValid(a) /\ isValid(b) /\ a.t < b.t
isAfter(a, b) == isValid(a) /\ isValid(b) /\ a.t > b.t
isSameOrBefore(a, b) == isValid(a) /\ isValid(b) /\ a.t <= b.t
isSameOrAfter(a, b) == isValid(a) /\ isValid(b) /\ a.t >= b.t

\* integer part of n / d, rounded towards zero (moment's absFloor)
absFloor(n, d) == IF n >= 0 THEN n \div d ELSE -((-n) \div d)

\* diff with its operands exchanged
diffMinutes_Reversed(a, b) ==
    IF isValid(a) /\ isValid(b) THEN absFloor(b.t - a.t, MsPerMinute) ELSE NaN

\* a.diff(b, 'minutes')
diffMinutes(a, b) ==
    IF isValid(a) /\ isValid(b) THEN absFloor(a.t - b.t, MsPerMinute) ELSE NaN

\* m.toISOString(): the instant written in UTC, null for an invalid moment
toISOString(m) ==
    IF isValid(m)
    THEN Iso(m.t \div MsPerDay, (m.t % MsPerDay) \div MsPerHour,
             (m.t % MsPerHour) \div MsPerMinute, (m.t % MsPerMinute) \div MsPerSecond,
             m.t % MsPerSecond, 0)
    ELSE null

\* Math.min
MathMin(a, b) == IF isNaN(a) \/ isNaN(b) THEN NaN ELSE IF a <= b THEN a ELSE b

Pad2(n) == IF n < 10 THEN "0" \o ToString(n) ELSE ToString(n)

\* (minutes / 60).toFixed(2)
toFixed2(minutes) ==
    IF isNaN(minutes) THEN "NaN"
    ELSE LET a == IF minutes < 0 THEN -minutes ELSE minutes
             \* hundredths of an hour, rounded to nearest (a tie cannot occur)
             cents == (a * 100 + 30) \div 60
         IN (IF minutes < 0 THEN "-" ELSE "")
            \o ToString(cents \div 100) \o "." \o Pad2(cents % 100)

(***************************************************************************)
(* "HH:MM" strings are sequences of one-character strings.                 *)
(***************************************************************************)
Digit(c) ==
    CASE c = "0" -> 0 [] c = "1" -> 1 [] c = "2" -> 2 [] c = "3" -> 3 [] c = "4" -> 4
      [] c = "5" -> 5 [] c = "6" -> 6 [] c = "7" -> 7 [] c = "8" -> 8 [] c = "9" -> 9

\* Number(str) of a string of decimal digits
RECURSIVE Number(_)
Number(str) ==
    IF str = <<>> THEN 0
    ELSE Number(SubSeq(str, 1, Len(str) - 1)) * 10 + Digit(str[Len(str)])

\* str.split(sep)
RECURSIVE split(_, _)
split(str, sep) ==
    IF \E i \in 1..Len(str) : str[i] = sep
    THEN LET i == CHOOSE k \in 1..Len(str) :
                      str[k] = sep /\ \A j \in 1..(k - 1) : str[j] # sep
         IN <<SubSeq(str, 1, i - 1)>> \o split(SubSeq(str, i + 1, Len(str)), sep)
    ELSE <<str>>

\* a schedule field that is not there
noTime == <<>>

(***************************************************************************)
(* timeCalculator.js                                                       *)
(***************************************************************************)
Throw(msg) == [threw |-> TRUE, message |-> msg]
Return(v) == [threw |-> FALSE, value |-> v]

\* the schedule's clock time of the zone put on punch-in's UTC calendar day
getScheduledTime_UtcDay(dateMoment, timeString, timezone) ==
    LET parts == split(timeString, ":")
        hours == Number(parts[1])
        minutes == Number(parts[2])
    IN IF isValid(dateMoment)
       THEN FromLocal((dateMoment.t \div MsPerDay) * MsPerDay
                      + hours * MsPerHour + minutes * MsPerMinute, dateMoment.z)
       ELSE dateMoment

getScheduledTime(dateMoment, timeString, timezone) ==
    LET parts == split(timeString, ":")
        hours == Number(parts[1])
        minutes == Number(parts[2])
    IN setMillisecond(setSecond(setMinute(setHour(dateMoment, hours), minutes), 0), 0)

\* late minutes without the test for an early arrival
calculateLate_Signed(punchIn, shiftStart) == diffMinutes(punchIn, shiftStart)

calculateLate(punchIn, shiftStart) ==
    IF isSameOrBefore(punchIn, shiftStart) THEN 0
    ELSE diffMinutes(punchIn, shiftStart)

\* undertime from the clock times only, whatever the day of the punch-out
calculateUndertime_ClockOnly(punchOut, shiftEnd) ==
    IF ~(isValid(punchOut) /\ isValid(shiftEnd)) THEN NaN
    ELSE IF (LocalMs(punchOut) % MsPerDay) >= (LocalMs(shiftEnd) % MsPerDay) THEN 0
    ELSE ((LocalMs(shiftEnd) % MsPerDay) - (LocalMs(punchOut) % MsPerDay)) \div MsPerMinute

\* undertime without the test for a punch-out at or after the shift end
calculateUndertime_Signed(punchOut, shiftEnd) == diffMinutes(shiftEnd, punchOut)

calculateUndertime(punchOut, shiftEnd) ==
    IF isSameOrAfter(punchOut, shiftEnd) THEN 0
    ELSE diffMinutes(shiftEnd, punchOut)

\* regular hours counted from the shift start whatever the punch-in
calculateRegularHours_FromShiftStart(punchIn, punchOut, shiftStart, shiftEnd, scheduledMinutes) ==
    LET effectiveStart == shiftStart
        effectiveEnd == IF isBefore(punchOut, shiftEnd) THEN punchOut ELSE shiftEnd
    IN IF isSameOrBefore(effectiveEnd, effectiveStart) THEN 0
       ELSE MathMin(diffMinutes(effectiveEnd, effectiveStart), scheduledMinutes)

\* regular hours without the test for an empty overlap
calculateRegularHours_NoEmptyCheck(punchIn, punchOut, shiftStart, shiftEnd, scheduledMinutes) ==
    LET effectiveStart == IF isAfter(punchIn, shiftStart) THEN punchIn ELSE shiftStart
        effectiveEnd == IF isBefore(punchOut, shiftEnd) THEN punchOut ELSE shiftEnd
    IN MathMin(diffMinutes(effectiveEnd, effectiveStart), scheduledMinutes)

calculateRegularHours(punchIn, punchOut, shiftStart, shiftEnd, scheduledMinutes) ==
    LET effectiveStart == IF isAfter(punchIn, shiftStart) THEN punchIn ELSE shiftStart
        effectiveEnd == IF isBefore(punchOut, shiftEnd) THEN punchOut ELSE shiftEnd
    IN IF isSameOrBefore(effectiveEnd, effectiveStart) THEN 0
       ELSE MathMin(diffMinutes(effectiveEnd, effectiveStart), scheduledMinutes)

\* overtime counted from punch-in when punch-in is after the shift end
calculateOvertime_WorkedAfterEnd(punchIn, punchOut, shiftEnd, totalWorkedMinutes, scheduledMinutes) ==
    IF isSameOrBefore(punchOut, shiftEnd) THEN 0
    ELSE IF isAfter(punchIn, shiftEnd) THEN diffMinutes(punchOut, punchIn)
    ELSE diffMinutes(punchOut, shiftEnd)

\* overtime as the excess of the worked over the scheduled minutes
calculateOvertime_FromTotals(punchIn, punchOut, shiftEnd, totalWorkedMinutes, scheduledMinutes) ==
    IF isNaN(totalWorkedMinutes) \/ isNaN(scheduledMinutes) THEN NaN
    ELSE IF totalWorkedMinutes > scheduledMinutes
    THEN totalWorkedMinutes - scheduledMinutes
    ELSE 0

calculateOvertime(punchIn, punchOut, shiftEnd, totalWorkedMinutes, scheduledMinutes) ==
    IF isSameOrBefore(punchOut, shiftEnd) THEN 0
    ELSE diffMinutes(punchOut, shiftEnd)

\* the night window opening only after the 22:00 hour
isNightHour_After22(h) == h > 22 \/ h < 6

\* the hour test of the scan
isNightHour(h) == h >= 22 \/ h < 6

\* the scan with the hour read from endTime instead of currentTime
calculateNightDifferential_EndHour(punchIn, punchOut) ==
    IF ~isBefore(punchIn, punchOut) THEN 0
    ELSE LET span == punchOut.t - punchIn.t
             iterations == (span + MsPerMinute - 1) \div MsPerMinute
         IN IF isNightHour(hour(punchOut)) THEN iterations ELSE 0

\* The while loop visits currentTime = punchIn, punchIn + 1 minute, ... as long
\* as currentTime is before endTime, and counts the visits whose hour is a
\* night hour.
calculateNightDifferential(punchIn, punchOut) ==
    IF ~isBefore(punchIn, punchOut) THEN 0
    ELSE LET span == punchOut.t - punchIn.t
             iterations == (span + MsPerMinute - 1) \div MsPerMinute
         IN Cardinality({k \in 0..(iterations - 1) :
                isNightHour(hour([t |-> punchIn.t + k * MsPerMinute, z |-> punchIn.z]))})

\* the application's default zone taken for an omitted timezone
timezoneOf_DefaultManila(schedule) ==
    IF schedule.timezone = "omitted" THEN "Asia/Manila" ELSE schedule.timezone

\* schedule.timezone with its default
timezoneOf(schedule) == IF schedule.timezone = "omitted" THEN "UTC" ELSE schedule.timezone

calculateTimeMetrics(attendance, schedule) ==
    IF falsy(attendance.punchIn) \/ falsy(attendance.punchOut)
    THEN Throw("Both punchIn and punchOut are required")
    ELSE IF schedule.start = noTime \/ schedule.end = noTime
    THEN Throw("Cannot read properties of undefined (reading 'split')")
    ELSE
    LET timezone == timezoneOf(schedule)
        punchInTime == momentTz(attendance.punchIn, timezone)
        punchOutTime == momentTz(attendance.punchOut, timezone)
        shiftStart == getScheduledTime(punchInTime, schedule.start, timezone)
        shiftEnd == getScheduledTime(punchInTime, schedule.end, timezone)
        lateMinutes == calculateLate(punchInTime, shiftStart)
        undertimeMinutes == calculateUndertime(punchOutTime, shiftEnd)
        totalWorkedMinutes == diffMinutes(punchOutTime, punchInTime)
        scheduledMinutes == diffMinutes(shiftEnd, shiftStart)
        regularMinutes == calculateRegularHours(punchInTime, punchOutTime,
                                                shiftStart, shiftEnd, scheduledMinutes)
        overtimeMinutes == calculateOvertime(punchInTime, punchOutTime, shiftEnd,
                                             totalWorkedMinutes, scheduledMinutes)
        nightDiffMinutes == calculateNightDifferential(punchInTime, punchOutTime)
    IN Return([totalWorkedHours |-> toFixed2(totalWorkedMinutes),
               totalWorkedMinutes |-> totalWorkedMinutes,
               regularHours |-> toFixed2(regularMinutes),
               regularMinutes |-> regularMinutes,
               overtimeHours |-> toFixed2(overtimeMinutes),
               overtimeMinutes |-> overtimeMinutes,
               nightDiffHours |-> toFixed2(nightDiffMinutes),
               nightDiffMinutes |-> nightDiffMinutes,
               lateMinutes |-> lateMinutes,
               undertimeMinutes |-> undertimeMinutes,
               punchInTime |-> toISOString(punchInTime),
               punchOutTime |-> toISOString(punchOutTime),
               shiftStart |-> toISOString(shiftStart),
               shiftEnd |-> toISOString(shiftEnd)])

(***************************************************************************)
(* The nightly windows as intervals: what the scan is meant to measure.    *)
(***************************************************************************)
Max(a, b) == IF a >= b THEN a ELSE b
Min(a, b) == IF a <= b THEN a ELSE b

\* length of the intersection of [a, b) and [lo, hi)
Overlap(a, b, lo, hi) == Max(0, Min(b, hi) - Max(a, lo))

\* milliseconds of [a, b) (wall-clock milliseconds of one zone) inside the
\* nightly windows 00:00-06:00 and 22:00-24:00 of the days d, d + 1, ...
RECURSIVE NightMsFrom(_, _, _)
NightMsFrom(d, a, b) ==
    IF d * MsPerDay >= b THEN 0
    ELSE Overlap(a, b, d * MsPerDay, d * MsPerDay + 6 * MsPerHour)
         + Overlap(a, b, d * MsPerDay + 22 * MsPerHour, (d + 1) * MsPerDay)
         + NightMsFrom(d + 1, a, b)

\* milliseconds of [punchIn, punchOut) inside the nightly windows of the zone
NightWindowMs(punchIn, punchOut) ==
    IF isBefore(punchIn, punchOut)
    THEN NightMsFrom(date(punchIn), LocalMs(punchIn), LocalMs(punchOut))
    ELSE 0

(***************************************************************************)
(* Inputs.                                                                 *)
(***************************************************************************)
T0900 == <<"0", "9", ":", "0", "0">>
T1800 == <<"1", "8", ":", "0", "0">>
T2200 == <<"2", "2", ":", "0", "0">>
T0600 == <<"0", "6", ":", "0", "0">>
T0830 == <<"0", "8", ":", "3", "0">>

Sched(start, end, timezone) == [start |-> start, end |-> end, timezone |-> timezone]

ManilaDay == Sched(T0900, T1800, "Asia/Manila")

Schedules ==
    { ManilaDay,
      Sched(T2200, T0600, "Asia/Manila"),
      Sched(T0900, T0900, "Asia/Manila"),
      Sched(T0830, T1800, "UTC"),
      Sched(T0900, T1800, "omitted"),
      Sched(T0900, T1800, "America/New_York") }

\* wall-clock times written with the +08:00 offset, on each day 1..MaxDay
ClockTimes ==
    { <<5, 59, 30>>, <<7, 0, 0>>, <<8, 30, 0>>, <<9, 0, 0>>, <<9, 15, 0>>,
      <<18, 0, 0>>, <<19, 30, 0>>, <<21, 0, 0>>, <<22, 0, 30>> }

Punches ==
    { Iso(d, c[1], c[2], c[3], 0, 480) : d \in 1..MaxDay, c \in ClockTimes }
    \cup { Iso(1, 9, 15, 0, 0, 0), Iso(1, 19, 30, 0, 0, 0), Iso(1, 22, 0, 0, 500, 0) }
    \cup { undefined, garbage }

Attendance(punchIn, punchOut) == [punchIn |-> punchIn, punchOut |-> punchOut]

CalculateCalls ==
    { [op |-> "calculate", attendance |-> Attendance(i, o), schedule |-> s] :
        i \in Punches, o \in Punches, s \in Schedules }

\* a JavaScript string value held in a field that may also hold null
Str(text) == [kind |-> "string", text |-> text]

\* records handed to the batch function; the second carries a further field
\* that the spread must keep, the third has no punchOut, the fourth has a
\* punchIn that is no date
BatchRecords ==
    { Attendance(Iso(1, 9, 15, 0, 0, 480), Iso(1, 19, 30, 0, 0, 480)),
      [punchIn |-> Iso(1, 21, 0, 0, 0, 480), punchOut |-> Iso(2, 7, 0, 0, 0, 480),
       id |-> "rec-2"],
      Attendance(Iso(1, 9, 0, 0, 0, 480), undefined),
      Attendance(garbage, Iso(1, 18, 0, 0, 0, 480)) }

RECURSIVE SeqsUpTo(_, _)
SeqsUpTo(S, n) ==
    IF n = 0 THEN {<<>>}
    ELSE LET shorter == SeqsUpTo(S, n - 1)
         IN shorter \cup {Append(q, x) : q \in {r \in shorter : Len(r) = n - 1}, x \in S}

BatchSchedules == { ManilaDay, Sched(noTime, T1800, "Asia/Manila") }

BatchCalls ==
    { [op |-> "batch", attendanceRecords |-> rs, schedule |-> s] :
        rs \in SeqsUpTo(BatchRecords, MaxBatch), s \in BatchSchedules }

\* a request body without a schedule
noSchedule == [missing |-> TRUE]

HttpPunches ==
    { Iso(1, 9, 15, 0, 0, 0), Iso(1, 19, 30, 0, 0, 0),
      Iso(1, 9, 15, 0, 0, 480), Iso(1, 19, 30, 0, 0, 480), undefined, garbage }

HttpSchedules ==
    { ManilaDay, noSchedule, Sched(noTime, T1800, "Asia/Manila"),
      Sched(T0900, noTime, "Asia/Manila"), Sched(T0900, T1800, "omitted") }

HttpCalls ==
    { [op |-> "http", body |-> [punchIn |-> i, punchOut |-> o, schedule |-> s]] :
        i \in HttpPunches, o \in HttpPunches, s \in HttpSchedules }

\* wall-clock times around and inside the nightly window, written with +08:00
NightClockTimes ==
    { <<21, 0, 0>>, <<21, 59, 30>>, <<22, 0, 0>>, <<22, 0, 30>>, <<22, 1, 15>>,
      <<23, 59, 45>>, <<0, 0, 0>>, <<5, 0, 5>>, <<5, 58, 45>>, <<5, 59, 30>>,
      <<6, 0, 0>>, <<7, 0, 0>> }

NightPunches == { Iso(d, c[1], c[2], c[3], 0, 480) : d \in 1..MaxDay, c \in NightClockTimes }

\* [from, to) is not empty and lies inside one nightly window of the zone
WithinNight(from, to, timezone) ==
    LET a == momentTz(from, timezone)
        b == momentTz(to, timezone)
    IN a.t < b.t /\ NightWindowMs(a, b) = b.t - a.t

Single(attendance, schedule) == [attendance |-> attendance, schedule |-> schedule]

\* two calls, the second with the punch interval of the first extended, at
\* its start or at its end, by an interval inside the nightly window
ExtendedCalls ==
    LET triples == NightPunches \X NightPunches \X NightPunches
    IN { [op |-> "pair", rel |-> "extended",
          first |-> Single(Attendance(t[1], t[2]), ManilaDay),
          second |-> Single(Attendance(t[3], t[2]), ManilaDay)] :
            t \in {u \in triples : WithinNight(u[3], u[1], "Asia/Manila")} }
       \cup
       { [op |-> "pair", rel |-> "extended",
          first |-> Single(Attendance(t[1], t[2]), ManilaDay),
          second |-> Single(Attendance(t[1], t[3]), ManilaDay)] :
            t \in {u \in triples : WithinNight(u[2], u[3], "Asia/Manila")} }

\* two calls with the same punches and clock times, the first without a
\* timezone, the second with timezone "UTC"
TimezoneCalls ==
    { [op |-> "pair", rel |-> "timezone",
       first |-> Single(Attendance(i, o), Sched(c[1], c[2], "omitted")),
       second |-> Single(Attendance(i, o), Sched(c[1], c[2], "UTC"))] :
        i \in Punches, o \in Punches, c \in {<<T0900, T1800>>, <<T2200, T0600>>} }

PairCalls == ExtendedCalls \cup TimezoneCalls

\* one step of a caller: calculateTimeMetrics on its record number `record',
\* or batchCalculateTimeMetrics on its whole list
CallStep(fn, record) == [fn |-> fn, record |-> record]

CallSteps == { CallStep("calculate", 1), CallStep("calculate", 2), CallStep("batch", 0) }

\* the records of the batch calls and one with the punches of "rec-2" and no
\* further field
SequenceRecords ==
    BatchRecords \cup { Attendance(Iso(1, 21, 0, 0, 0, 480), Iso(2, 7, 0, 0, 0, 480)) }

\* a caller with two records and a schedule, and the MaxBatch calls it makes
SequenceCalls ==
    { [op |-> "sequence",
       given |-> [records |-> <<a, b>>, schedule |-> s],
       objects |-> [records |-> <<a, b>>, schedule |-> s],
       program |-> p] :
        a \in SequenceRecords, b \in SequenceRecords, s \in BatchSchedules,
        p \in {q \in SeqsUpTo(CallSteps, MaxBatch) : Len(q) = MaxBatch} }

Calls == CalculateCalls \cup BatchCalls \cup HttpCalls \cup PairCalls \cup SequenceCalls

(***************************************************************************)
(* batchCalculateTimeMetrics and the HTTP handler.                         *)
(***************************************************************************)
\* a batch that stops at the first record whose calculation throws
batchCalculateTimeMetrics_StopAtFailure(attendanceRecords, userSchedule) ==
    LET failed == {i \in 1..Len(attendanceRecords) :
                      calculateTimeMetrics(attendanceRecords[i], userSchedule).threw}
        n == IF failed = {} THEN Len(attendanceRecords)
             ELSE (CHOOSE i \in failed : \A j \in failed : i <= j) - 1
    IN [i \in 1..n |->
          [metrics |-> calculateTimeMetrics(attendanceRecords[i], userSchedule).value,
           calculationError |-> null] @@ attendanceRecords[i]]

\* a batch in which every record after a failing one is reported as failed too
batchCalculateTimeMetrics_FailureSpreads(attendanceRecords, userSchedule) ==
    [i \in 1..Len(attendanceRecords) |->
        LET record == attendanceRecords[i]
            r == calculateTimeMetrics(record, userSchedule)
            earlier == {j \in 1..i : calculateTimeMetrics(attendanceRecords[j], userSchedule).threw}
        IN IF earlier = {}
           THEN [metrics |-> r.value, calculationError |-> null] @@ record
           ELSE [metrics |-> null,
                 calculationError |->
                     Str(calculateTimeMetrics(
                             attendanceRecords[CHOOSE j \in earlier : \A k \in earlier : j <= k],
                             userSchedule).message)] @@ record]

\* { ...record, metrics, calculationError }: the two named keys win
batchCalculateTimeMetrics(attendanceRecords, userSchedule) ==
    [i \in 1..Len(attendanceRecords) |->
        LET record == attendanceRecords[i]
            r == calculateTimeMetrics(record, userSchedule)
        IN IF ~r.threw
           THEN [metrics |-> r.value, calculationError |-> null] @@ record
           ELSE [metrics |-> null, calculationError |-> Str(r.message)] @@ record]

\* the handler without its test of the schedule
postCalculateTime_NoScheduleCheck(body) ==
    IF falsy(body.punchIn) \/ falsy(body.punchOut)
    THEN [status |-> 400, invoked |-> FALSE,
          json |-> [error |-> "Missing required fields: punchIn and punchOut are required"]]
    ELSE LET r == IF body.schedule = noSchedule
                  THEN Throw("Cannot destructure property 'start' of 'schedule'")
                  ELSE calculateTimeMetrics(Attendance(body.punchIn, body.punchOut),
                                            body.schedule)
         IN IF r.threw
            THEN [status |-> 500, invoked |-> TRUE, json |-> [error |-> r.message]]
            ELSE [status |-> 200, invoked |-> TRUE,
                  json |-> [success |-> TRUE, data |-> r.value]]

\* app.post("/api/calculate-time", ...): the response, and whether
\* calculateTimeMetrics was invoked on the way
postCalculateTime(body) ==
    IF falsy(body.punchIn) \/ falsy(body.punchOut)
    THEN [status |-> 400, invoked |-> FALSE,
          json |-> [error |-> "Missing required fields: punchIn and punchOut are required"]]
    ELSE IF body.schedule = noSchedule
            \/ body.schedule.start = noTime \/ body.schedule.end = noTime
    THEN [status |-> 400, invoked |-> FALSE,
          json |-> [error |-> "Missing schedule information: start and end times are required"]]
    ELSE LET r == calculateTimeMetrics(Attendance(body.punchIn, body.punchOut), body.schedule)
         IN IF r.threw
            THEN [status |-> 500, invoked |-> TRUE, json |-> [error |-> r.message]]
            ELSE [status |-> 200, invoked |-> TRUE,
                  json |-> [success |-> TRUE, data |-> r.value]]

(***************************************************************************)
(* Calls seen from the caller: the caller owns a list of attendance        *)
(* records and a schedule and hands them over by reference.  A call gives  *)
(* back its result and leaves the caller's objects in some state.          *)
(***************************************************************************)
\* calculateTimeMetrics reads punchIn, punchOut, start, end and timezone by
\* destructuring and works on moments it creates or clones
calculateTimeMetricsCall(objects, i) ==
    [objects |-> objects,
     result |-> calculateTimeMetrics(objects.records[i], objects.schedule)]

\* a batch that writes metrics and calculationError into the records it is given
batchCalculateTimeMetricsCall_InPlace(objects) ==
    LET entries == batchCalculateTimeMetrics(objects.records, objects.schedule)
    IN [objects |-> [objects EXCEPT !.records = entries], result |-> entries]

\* map() builds a new list and { ...record } a new object for each entry
batchCalculateTimeMetricsCall(objects) ==
    [objects |-> objects,
     result |-> batchCalculateTimeMetrics(objects.records, objects.schedule)]

(***************************************************************************)
(* State machine: a caller has chosen the arguments of one call (Init),    *)
(* the call runs and its result is returned.                               *)
(***************************************************************************)
\* no PunchClock is open and the collections are empty
AppUnused ==
    /\ db = [attendance |-> <<>>, dailySummary |-> <<>>]
    /\ clock = 0
    /\ tabs = <<>>
    /\ tasks = <<>>

Init ==
    /\ pc = "called"
    /\ call \in Calls
    /\ ret = null
    /\ AppUnused

Calculate ==
    /\ pc = "called"
    /\ call.op = "calculate"
    /\ ret' = calculateTimeMetrics(call.attendance, call.schedule)
    /\ pc' = "returned"
    /\ UNCHANGED call
    /\ UNCHANGED appVars

BatchCalculate ==
    /\ pc = "called"
    /\ call.op = "batch"
    /\ ret' = batchCalculateTimeMetrics(call.attendanceRecords, call.schedule)
    /\ pc' = "returned"
    /\ UNCHANGED call
    /\ UNCHANGED appVars

PostCalculateTime ==
    /\ pc = "called"
    /\ call.op = "http"
    /\ ret' = postCalculateTime(call.body)
    /\ pc' = "returned"
    /\ UNCHANGED call
    /\ UNCHANGED appVars

\* two calls of calculateTimeMetrics, one after the other
CalculateTwice ==
    /\ pc = "called"
    /\ call.op = "pair"
    /\ ret' = << calculateTimeMetrics(call.first.attendance, call.first.schedule),
                 calculateTimeMetrics(call.second.attendance, call.second.schedule) >>
    /\ pc' = "returned"
    /\ UNCHANGED call
    /\ UNCHANGED appVars

\* the results the caller of a sequence has got so far
SequenceDone == IF pc = "called" THEN <<>> ELSE ret

\* the next call of a sequence is calculateTimeMetrics
CalculateInSequence ==
    /\ pc \in {"called", "running"}
    /\ call.op = "sequence"
    /\ LET step == call.program[Len(SequenceDone) + 1]
           r == calculateTimeMetricsCall(call.objects, step.record)
       IN /\ step.fn = "calculate"
          /\ ret' = Append(SequenceDone, r.result)
          /\ call' = [call EXCEPT !.objects = r.objects]
    /\ pc' = IF Len(SequenceDone) + 1 = Len(call.program) THEN "returned" ELSE "running"
    /\ UNCHANGED appVars

\* the next call of a sequence is batchCalculateTimeMetrics
BatchInSequence ==
    /\ pc \in {"called", "running"}
    /\ call.op = "sequence"
    /\ LET step == call.program[Len(SequenceDone) + 1]
           r == batchCalculateTimeMetricsCall(call.objects)
       IN /\ step.fn = "batch"
          /\ ret' = Append(SequenceDone, r.result)
          /\ call' = [call EXCEPT !.objects = r.objects]
    /\ pc' = IF Len(SequenceDone) + 1 = Len(call.program) THEN "returned" ELSE "running"
    /\ UNCHANGED appVars

Next ==
    \/ Calculate \/ BatchCalculate \/ PostCalculateTime \/ CalculateTwice
    \/ CalculateInSequence \/ BatchInSequence

Spec == Init /\ [][Next]_vars

(***************************************************************************)
(* The application around the calculator: the Firestore collections, the   *)
(* PunchClock component (src/components/timeTracker.tsx) and the admin     *)
(* handlers (src/hooks/useAdminDashboard.ts).  One user; the fields        *)
(* userEmail, userName, timestamp, createdAt and lastUpdated of the        *)
(* documents and the top-level copies of the metrics on an attendance      *)
(* document are left out.  Firestore reads and writes succeed unless the   *)
(* document of an updateDoc is missing, and the server's clock is the      *)
(* browser's.  An await is a step boundary: an action is the Firestore or  *)
(* HTTP operation that settles together with the code up to the next await.*)
(***************************************************************************)
\* instants the clock passes through
MaxTicks == 3
\* documents ever added to 'attendance'
MaxDocs == 4
\* PunchClock components open at once (browser tabs of the one user)
MaxTabs == 2
\* handler invocations standing at an await at once
MaxTasks == 2
\* the zone of the browser: Date's getFullYear, getMonth, getDate are local
BrowserZone == "Asia/Manila"

\* new Date(): the clock shows 09:15 and 23:30 of day 1, 00:30 of day 2, then
\* 09:15 and 23:30 of day 2, 00:30 of day 3, ...
newDate ==
    LET slot == (clock - 1) % 3
        time == CASE slot = 0 -> 9 * MsPerHour + 15 * MsPerMinute
                  [] slot = 1 -> 23 * MsPerHour + 30 * MsPerMinute
                  [] slot = 2 -> 24 * MsPerHour + 30 * MsPerMinute
    IN FromLocal((1 + (clock - 1) \div 3) * MsPerDay + time, BrowserZone).t

\* the values the 'date' fields take
Dates == 1..(1 + (MaxTicks + 2) \div 3)

\* getTodayISO() at the instant t: the local calendar day, "2025-10-0<d>"
getTodayISO(t) == date([t |-> t, z |-> BrowserZone])

\* date.toISOString()
dateToISOString(t) == toISOString([t |-> t, z |-> "UTC"])

\* a number field of an object: an absent field (undefined) behaves as NaN
\* under +, -, Math.max and || 0
numberField(obj, f) == IF f \in DOMAIN obj THEN obj[f] ELSE NaN

\* x || 0 for a number
orZero(x) == IF isNaN(x) THEN 0 ELSE x

plus(a, b) == IF isNaN(a) \/ isNaN(b) THEN NaN ELSE a + b
minus(a, b) == IF isNaN(a) \/ isNaN(b) THEN NaN ELSE a - b

\* Math.max(0, x)
MathMax0(x) == IF isNaN(x) THEN NaN ELSE IF x > 0 THEN x ELSE 0

\* x.toFixed(2) of a number of hours given in hundredths
toFixed(x) ==
    IF isNaN(x) THEN "NaN"
    ELSE LET a == IF x < 0 THEN -x ELSE x
         IN (IF x < 0 THEN "-" ELSE "") \o ToString(a \div 100) \o "." \o Pad2(a % 100)

\* parseFloat(text) of a decimal with two places, in hundredths; NaN for a
\* text that is no number
RECURSIVE parseDigits(_)
parseDigits(text) ==
    IF Len(text) = 0 THEN 0
    ELSE LET c == SubSeq(text, Len(text), Len(text))
             rest == parseDigits(SubSeq(text, 1, Len(text) - 1))
         IN IF isNaN(rest) \/ c \notin {"0", "1", "2", "3", "4", "5", "6", "7", "8", "9"}
            THEN NaN
            ELSE rest * 10 + Digit(c)

parseFloat(text) ==
    LET negative == Len(text) > 0 /\ SubSeq(text, 1, 1) = "-"
        digits == IF negative THEN SubSeq(text, 2, Len(text)) ELSE text
        n == Len(digits)
        whole == parseDigits(SubSeq(digits, 1, n - 3))
        places == parseDigits(SubSeq(digits, n - 1, n))
    IN IF n < 4 \/ SubSeq(digits, n - 2, n - 2) # "." \/ isNaN(whole) \/ isNaN(places)
       THEN NaN
       ELSE (IF negative THEN -1 ELSE 1) * (whole * 100 + places)

\* a document that does not exist
noDoc == [exists |-> FALSE]

HourFields == {"totalWorkedHours", "regularHours", "overtimeHours", "nightDiffHours"}

\* updateData.metrics: the fields handlePunchOut copies from the response
storedMetrics(calculatedMetrics) ==
    [f \in HourFields
           \cup {"totalWorkedMinutes", "regularMinutes", "overtimeMinutes",
                 "nightDiffMinutes", "lateMinutes", "undertimeMinutes"}
        |-> calculatedMetrics[f]]

\* updateDailySummary, existing summary: the fields handed to updateDoc
updatedData(existing, metrics) ==
    [f \in HourFields |-> toFixed(plus(parseFloat(existing[f]), parseFloat(metrics[f])))]
    @@ [totalLateMinutes |->
            plus(orZero(existing.totalLateMinutes), numberField(metrics, "lateMinutes")),
        totalUndertimeMinutes |->
            plus(orZero(existing.totalUndertimeMinutes),
                 numberField(metrics, "undertimeMinutes"))]

\* updateDailySummary, no summary yet: the document handed to setDoc
newSummary(userId, day, metrics) ==
    [f \in HourFields |-> metrics[f]]
    @@ [exists |-> TRUE, userId |-> userId, date |-> day,
        totalLateMinutes |-> numberField(metrics, "lateMinutes"),
        totalUndertimeMinutes |-> numberField(metrics, "undertimeMinutes")]

\* updateDoc(ref, data) on the document as it is now: fields merged
updateDoc(current, data) == data @@ current

\* what updateDailySummary leaves in the summary document that is `current'
\* at the time of its write, having read `snap' at its getDoc; an updateDoc
\* of a document that is gone is rejected and the error is caught
updateDailySummary(current, snap, userId, day, metrics) ==
    IF snap.exists
    THEN IF current.exists THEN updateDoc(current, updatedData(snap, metrics)) ELSE current
    ELSE newSummary(userId, day, metrics)

(***************************************************************************)
(* PunchClock (timeTracker.tsx).                                           *)
(***************************************************************************)
\* currentSession === null
noSession == [id |-> 0, punchIn |-> NaN]

\* a PunchClock as mounted: its user prop and its React state
PunchClock(user) == [user |-> user, isPunchedIn |-> FALSE, currentSession |-> noSession]

\* a user without a schedule of their own (the default schedule applies),
\* and the same user with a schedule that lacks its end
DefaultUser == [userId |-> "u1", schedule |-> noSchedule]

Users == { DefaultUser, [userId |-> "u1", schedule |-> Sched(T0900, noTime, "Asia/Manila")] }

\* a handler invocation standing at the await `at', with its local variables
Task(fn, at, tab) ==
    [fn |-> fn, at |-> at, tab |-> tab, punchInTime |-> NaN, todayDate |-> 0,
     session |-> noSession, punchOutTime |-> NaN, duration |-> 0,
     metrics |-> null, snap |-> noDoc]

\* the list without its k-th element
Remove(list, k) == SubSeq(list, 1, k - 1) \o SubSeq(list, k + 1, Len(list))

\* room for one more handler invocation within the bounds
Room == Len(tasks) < MaxTasks /\ Len(db.attendance) + Len(tasks) < MaxDocs

\* the Punch In button is clicked: handlePunchIn runs up to its await addDoc
handlePunchIn(t) ==
    /\ ~tabs[t].isPunchedIn
    /\ Room
    /\ tasks' = Append(tasks, [Task("handlePunchIn", "addDoc", t) EXCEPT
                                  !.punchInTime = newDate,
                                  !.todayDate = getTodayISO(newDate)])
    /\ UNCHANGED <<db, clock, tabs, calcVars>>

\* addDoc of handlePunchIn settles; setCurrentSession, setIsPunchedIn
PunchInAdded(k) ==
    LET task == tasks[k]
        attendanceData == [exists |-> TRUE, userId |-> tabs[task.tab].user.userId,
                           punchIn |-> newDate, punchOut |-> NaN, type |-> "punch_in",
                           date |-> task.todayDate, duration |-> 0, metrics |-> null,
                           relatedSessionId |-> 0]
    IN /\ task.fn = "handlePunchIn"
       /\ db' = [db EXCEPT !.attendance = Append(@, attendanceData)]
       /\ tabs' = [tabs EXCEPT ![task.tab].currentSession =
                                   [id |-> Len(db.attendance) + 1, punchIn |-> task.punchInTime],
                               ![task.tab].isPunchedIn = TRUE]
       /\ tasks' = Remove(tasks, k)
       /\ UNCHANGED <<clock, calcVars>>

\* the Punch Out button is clicked: handlePunchOut runs up to its await fetch
handlePunchOut(t) ==
    /\ tabs[t].isPunchedIn
    /\ tabs[t].currentSession # noSession
    /\ Room
    /\ tasks' = Append(tasks, [Task("handlePunchOut", "fetch", t) EXCEPT
                                  !.session = tabs[t].currentSession,
                                  !.punchOutTime = newDate,
                                  !.duration = (newDate - tabs[t].currentSession.punchIn)
                                                   \div MsPerSecond])
    /\ UNCHANGED <<db, clock, tabs, calcVars>>

\* calculatedMetrics after the fetch: result.data of an ok response, null for
\* a rejected fetch and for a response that is not ok
calculatedMetricsOf(rejected, response) ==
    IF rejected THEN null
    ELSE IF response.status >= 200 /\ response.status <= 299 THEN response.json.data
    ELSE null

\* the fetch of handlePunchOut settles: the endpoint answers or the request fails
FetchSettled(k, rejected) ==
    LET task == tasks[k]
        user == tabs[task.tab].user
        schedule == IF user.schedule = noSchedule THEN ManilaDay ELSE user.schedule
        response == postCalculateTime([punchIn |-> dateToISOString(task.session.punchIn),
                                       punchOut |-> dateToISOString(task.punchOutTime),
                                       schedule |-> schedule])
    IN /\ task.fn = "handlePunchOut" /\ task.at = "fetch"
       /\ tasks' = [tasks EXCEPT ![k].metrics = calculatedMetricsOf(rejected, response),
                                 ![k].at = "updateDoc"]
       /\ UNCHANGED <<db, clock, tabs, calcVars>>

\* updateData that marks the record completed only when there are metrics
updateData_CompletedOnlyWithMetrics(duration, calculatedMetrics) ==
    IF calculatedMetrics # null
    THEN [punchOut |-> newDate, duration |-> duration, type |-> "completed",
          metrics |-> storedMetrics(calculatedMetrics)]
    ELSE [punchOut |-> newDate, duration |-> duration]

\* updateData: what handlePunchOut writes to the session's attendance document
updateData(duration, calculatedMetrics) ==
    [punchOut |-> newDate, duration |-> duration, type |-> "completed"]
    @@ (IF calculatedMetrics # null
        THEN [metrics |-> storedMetrics(calculatedMetrics)]
        ELSE <<>>)

\* updateDoc(attendanceRef, updateData) settles; a missing document rejects
\* it and the catch ends the handler.  Then todayDate = getTodayISO().
AttendanceUpdated(k) ==
    LET task == tasks[k]
        id == task.session.id
    IN /\ task.fn = "handlePunchOut" /\ task.at = "updateDoc"
       /\ IF db.attendance[id].exists
          THEN /\ db' = [db EXCEPT !.attendance[id] =
                                       updateDoc(@, updateData(task.duration, task.metrics))]
               /\ tasks' = [tasks EXCEPT ![k].todayDate = getTodayISO(newDate),
                                         ![k].at = "addDoc"]
          ELSE /\ tasks' = Remove(tasks, k)
               /\ UNCHANGED db
       /\ UNCHANGED <<clock, tabs, calcVars>>

\* the end of handlePunchOut: setCurrentSession(null), setIsPunchedIn(false)
Finished(k) ==
    /\ tabs' = [tabs EXCEPT ![tasks[k].tab].currentSession = noSession,
                            ![tasks[k].tab].isPunchedIn = FALSE]
    /\ tasks' = Remove(tasks, k)

\* addDoc of the punch_out record settles; without metrics the handler ends
PunchOutAdded(k) ==
    LET task == tasks[k]
        punchOutData == [exists |-> TRUE, userId |-> tabs[task.tab].user.userId,
                         punchIn |-> NaN, punchOut |-> newDate, type |-> "punch_out",
                         date |-> task.todayDate, duration |-> task.duration,
                         metrics |-> IF task.metrics # null
                                     THEN storedMetrics(task.metrics) ELSE null,
                         relatedSessionId |-> task.session.id]
    IN /\ task.fn = "handlePunchOut" /\ task.at = "addDoc"
       /\ db' = [db EXCEPT !.attendance = Append(@, punchOutData)]
       /\ IF task.metrics # null
          THEN tasks' = [tasks EXCEPT ![k].at = "getDoc"] /\ UNCHANGED tabs
          ELSE Finished(k)
       /\ UNCHANGED <<clock, calcVars>>

\* getDoc(summaryRef) of updateDailySummary settles
SummaryRead(k) ==
    /\ tasks[k].fn = "handlePunchOut" /\ tasks[k].at = "getDoc"
    /\ tasks' = [tasks EXCEPT ![k].snap = db.dailySummary[tasks[k].todayDate],
                              ![k].at = "write"]
    /\ UNCHANGED <<db, clock, tabs, calcVars>>

\* updateDoc or setDoc of updateDailySummary settles, the handler ends
SummaryWritten(k) ==
    LET task == tasks[k]
    IN /\ task.fn = "handlePunchOut" /\ task.at = "write"
       /\ db' = [db EXCEPT !.dailySummary[task.todayDate] =
                    updateDailySummary(@, task.snap, tabs[task.tab].user.userId,
                                       task.todayDate, task.metrics)]
       /\ Finished(k)
       /\ UNCHANGED <<clock, calcVars>>

\* time passes
Tick ==
    /\ clock < MaxTicks
    /\ clock' = clock + 1
    /\ UNCHANGED <<db, tabs, tasks, calcVars>>

\* no caller of the calculator of its own
CalcUnused == pc = "idle" /\ call = null /\ ret = null

\* n PunchClocks of one user are open, nothing is stored yet
Mounted(n, users) ==
    /\ CalcUnused
    /\ db = [attendance |-> <<>>, dailySummary |-> [d \in Dates |-> noDoc]]
    /\ clock = 1
    /\ \E user \in users : tabs = [t \in 1..n |-> PunchClock(user)]
    /\ tasks = <<>>

NextClock ==
    \/ \E t \in DOMAIN tabs : handlePunchIn(t) \/ handlePunchOut(t)
    \/ \E k \in DOMAIN tasks :
          \/ PunchInAdded(k)
          \/ \E rejected \in BOOLEAN : FetchSettled(k, rejected)
          \/ AttendanceUpdated(k)
          \/ PunchOutAdded(k)
          \/ SummaryRead(k)
          \/ SummaryWritten(k)
    \/ Tick

\* One PunchClock whose handlers run one after the other: a button is
\* clicked only when no handler stands at an await.
InitSequential == Mounted(1, Users)

NextSequential == NextClock /\ Len(tasks') <= 1

SpecSequential == InitSequential /\ [][NextSequential]_vars

\* One PunchClock whose buttons are clicked again while a handler stands at
\* an await.
InitDoubleClick == Mounted(1, {DefaultUser})

SpecDoubleClick == InitDoubleClick /\ [][NextClock]_vars

\* MaxTabs PunchClocks of the user, each with one handler at a time.
InitTabs == Mounted(MaxTabs, {DefaultUser})

NextTabs ==
    NextClock /\ \A i, j \in DOMAIN tasks' : tasks'[i].tab = tasks'[j].tab => i = j

SpecTabs == InitTabs /\ [][NextTabs]_vars

(***************************************************************************)
(* The admin dashboard (useAdminDashboard.ts).  A handler runs as a whole; *)
(* pc and call hold the admin's position and the handler called.           *)
(***************************************************************************)
\* handleDeletePunch: the summary less the metrics of the punch, not below 0
updatedSummaryOfDelete(summary, metrics) ==
    [f \in HourFields |->
        toFixed(MathMax0(minus(parseFloat(summary[f]), parseFloat(metrics[f]))))]
    @@ [totalLateMinutes |->
            MathMax0(minus(orZero(summary.totalLateMinutes),
                           orZero(numberField(metrics, "lateMinutes")))),
        totalUndertimeMinutes |->
            MathMax0(minus(orZero(summary.totalUndertimeMinutes),
                           orZero(numberField(metrics, "undertimeMinutes"))))]

\* handleSaveEdit: the summary less the old and plus the new metrics, not below 0
updatedSummaryOfEdit(summary, oldMetrics, calculatedMetrics) ==
    [f \in HourFields |->
        toFixed(MathMax0(plus(minus(parseFloat(summary[f]), parseFloat(oldMetrics[f])),
                              parseFloat(calculatedMetrics[f]))))]
    @@ [totalLateMinutes |->
            MathMax0(plus(minus(orZero(summary.totalLateMinutes),
                                orZero(numberField(oldMetrics, "lateMinutes"))),
                          orZero(numberField(calculatedMetrics, "lateMinutes")))),
        totalUndertimeMinutes |->
            MathMax0(plus(minus(orZero(summary.totalUndertimeMinutes),
                                orZero(numberField(oldMetrics, "undertimeMinutes"))),
                          orZero(numberField(calculatedMetrics, "undertimeMinutes"))))]

\* handleDeletePunch: every field of updatedSummary is 0
allZero(updatedSummary) ==
    /\ \A f \in HourFields : parseFloat(updatedSummary[f]) = 0
    /\ updatedSummary.totalLateMinutes = 0
    /\ updatedSummary.totalUndertimeMinutes = 0

\* the admin confirms the deletion of an attendance document that exists
handleDeletePunch(punchId) ==
    LET punchData == db.attendance[punchId]
        metrics == punchData.metrics
        summary == db.dailySummary[punchData.date]
        updatedSummary == updatedSummaryOfDelete(summary, metrics)
    IN /\ pc = "idle"
       /\ tasks = <<>>
       /\ punchData.exists
       /\ db' = [db EXCEPT
                    !.attendance[punchId] = noDoc,
                    !.dailySummary[punchData.date] =
                        IF metrics # null /\ summary.exists
                        THEN IF allZero(updatedSummary) THEN noDoc
                             ELSE updateDailySummary(summary, summary, punchData.userId,
                                                     punchData.date, updatedSummary)
                        ELSE @]
       /\ pc' = "returned"
       /\ call' = [op |-> "handleDeletePunch", punchId |-> punchId]
       /\ UNCHANGED <<ret, clock, tabs, tasks>>

\* the admin saves an edit of an attendance document that exists; when the
\* calculation request fails nothing is written
handleSaveEdit(punchId, punchInDate, punchOutDate, day, rejected) ==
    LET existingData == db.attendance[punchId]
        response == postCalculateTime([punchIn |-> dateToISOString(punchInDate),
                                       punchOut |-> dateToISOString(punchOutDate),
                                       schedule |-> ManilaDay])
        calculatedMetrics == response.json.data
        summary == db.dailySummary[existingData.date]
        updatedSummary ==
            updatedSummaryOfEdit(summary, existingData.metrics, calculatedMetrics)
    IN /\ pc = "idle"
       /\ tasks = <<>>
       /\ existingData.exists
       /\ IF rejected \/ response.status # 200
          THEN UNCHANGED db
          ELSE db' = [db EXCEPT
                        !.attendance[punchId] =
                            updateDoc(@, [punchIn |-> punchInDate, punchOut |-> punchOutDate,
                                          date |-> day, metrics |-> calculatedMetrics]),
                        !.dailySummary[existingData.date] =
                            IF existingData.metrics # null /\ summary.exists
                            THEN updateDailySummary(summary, summary, existingData.userId,
                                                    existingData.date, updatedSummary)
                            ELSE @]
       /\ pc' = "returned"
       /\ call' = [op |-> "handleSaveEdit", punchId |-> punchId]
       /\ UNCHANGED <<ret, clock, tabs, tasks>>

\* the times an edit may give: 09:15 to 23:30 of day 1, 23:30 of day 1 to
\* 00:30 of day 2, in the browser's zone
Edits ==
    LET at(d, h, mi) == FromLocal(d * MsPerDay + h * MsPerHour + mi * MsPerMinute,
                                  BrowserZone).t
    IN { <<at(1, 9, 15), at(1, 23, 30)>>, <<at(1, 23, 30), at(2, 0, 30)>> }

\* One PunchClock whose handlers run one after the other, and an admin who
\* deletes or edits one attendance document while no handler is running.
InitAdmin == Mounted(1, {DefaultUser})

NextAdmin ==
    \/ pc = "idle" /\ NextSequential
    \/ \E punchId \in DOMAIN db.attendance :
          \/ handleDeletePunch(punchId)
          \/ \E e \in Edits, day \in Dates, rejected \in BOOLEAN :
                handleSaveEdit(punchId, e[1], e[2], day, rejected)

SpecAdmin == InitAdmin /\ [][NextAdmin]_vars

(***************************************************************************)
(* The properties.  What a returned calculate call shows: its arguments    *)
(* and, read back from the echoed ISO strings, the resolved shift window.  *)
(***************************************************************************)
CalcReturned == pc = "returned" /\ call.op = "calculate" /\ ~ret.threw

BothParsed ==
    call.attendance.punchIn.kind = "iso" /\ call.attendance.punchOut.kind = "iso"

Zone == timezoneOf(call.schedule)
PunchInT == momentTz(call.attendance.punchIn, Zone)
PunchOutT == momentTz(call.attendance.punchOut, Zone)
ShiftStartT == momentTz(ret.value.shiftStart, Zone)
ShiftEndT == momentTz(ret.value.shiftEnd, Zone)
ScheduledMinutes == (ShiftEndT.t - ShiftStartT.t) \div MsPerMinute

\* the two scenarios of the specification and the request of the README
DayCall ==
    [op |-> "calculate",
     attendance |-> Attendance(Iso(1, 9, 15, 0, 0, 480), Iso(1, 19, 30, 0, 0, 480)),
     schedule |-> ManilaDay]

OvernightCall ==
    [op |-> "calculate",
     attendance |-> Attendance(Iso(1, 21, 0, 0, 0, 480), Iso(2, 7, 0, 0, 0, 480)),
     schedule |-> ManilaDay]

ReadmeRequest ==
    [op |-> "http",
     body |-> [punchIn |-> Iso(1, 9, 15, 0, 0, 0), punchOut |-> Iso(1, 19, 30, 0, 0, 0),
               schedule |-> ManilaDay]]

\* C1: whenever punchIn is at or after shiftStart, overtime plus regular
\* minutes do not exceed the total worked minutes.
C1_OvertimePlusRegularWithinTotal ==
    (CalcReturned /\ BothParsed /\ PunchInT.t >= ShiftStartT.t)
        => ret.value.overtimeMinutes + ret.value.regularMinutes
               <= ret.value.totalWorkedMinutes

\* C2: for every schedule and every non-inverted punch pair, regular minutes
\* lie between 0 and the scheduled minutes shiftEnd - shiftStart.
C2_RegularWithinScheduled ==
    (CalcReturned /\ BothParsed /\ PunchOutT.t >= PunchInT.t)
        => /\ 0 <= ret.value.regularMinutes
           /\ ret.value.regularMinutes <= ScheduledMinutes

\* C3: a punch pair that covers the whole shift window gets regular equal to
\* the scheduled minutes and neither late nor undertime minutes.
C3_FullCoverage ==
    (CalcReturned /\ BothParsed /\ PunchInT.t <= ShiftStartT.t
                  /\ PunchOutT.t >= ShiftEndT.t)
        => /\ ret.value.regularMinutes = ScheduledMinutes
           /\ ret.value.lateMinutes = 0
           /\ ret.value.undertimeMinutes = 0

\* C4: the overnight scenario (21:00 to 07:00 against 09:00-18:00) yields
\* 600 overtime minutes, "10.00" overtime hours.
C4_OvernightOvertime ==
    (pc = "returned" /\ call = OvernightCall)
        => /\ ~ret.threw
           /\ ret.value.overtimeMinutes = 600
           /\ ret.value.overtimeHours = "10.00"

\* C5: the overnight scenario yields 480 night-differential minutes, no
\* regular minutes and 720 late minutes.
C5_OvernightNightDiff ==
    (pc = "returned" /\ call = OvernightCall)
        => /\ ~ret.threw
           /\ ret.value.nightDiffMinutes = 480
           /\ ret.value.regularMinutes = 0
           /\ ret.value.lateMinutes = 720

C5_Witness ==
    /\ pc = "returned" /\ call = OvernightCall
    /\ ret.value.nightDiffHours = "8.00"

\* C6: the day scenario (09:15 to 19:30 against 09:00-18:00) yields 525
\* regular, 90 overtime, 0 night-differential, 15 late and 0 undertime minutes.
C6_DayScenario ==
    (pc = "returned" /\ call = DayCall)
        => /\ ~ret.threw
           /\ ret.value.regularMinutes = 525 /\ ret.value.regularHours = "8.75"
           /\ ret.value.overtimeMinutes = 90 /\ ret.value.overtimeHours = "1.50"
           /\ ret.value.nightDiffMinutes = 0
           /\ ret.value.lateMinutes = 15
           /\ ret.value.undertimeMinutes = 0

C6_Witness ==
    /\ pc = "returned" /\ call = DayCall
    /\ ret.value.regularMinutes + ret.value.overtimeMinutes = 615

\* C7 as stated: the day scenario yields 625 total worked minutes.
C7_TotalWorked625 ==
    (pc = "returned" /\ call = DayCall)
        => ~ret.threw /\ ret.value.totalWorkedMinutes = 625

\* C7 amended: the day scenario yields 615 total worked minutes (10 h 15 min,
\* "10.25" hours).
C7_TotalWorked615 ==
    (pc = "returned" /\ call = DayCall)
        => /\ ~ret.threw
           /\ ret.value.totalWorkedMinutes = 615
           /\ ret.value.totalWorkedHours = "10.25"

C7_Witness ==
    /\ pc = "returned" /\ call = DayCall
    /\ ret.value.punchInTime = Iso(1, 1, 15, 0, 0, 0)
    /\ ret.value.punchOutTime = Iso(1, 11, 30, 0, 0, 0)

\* C8: the request of the README (09:15Z to 19:30Z, 09:00-18:00 Asia/Manila)
\* is answered with the documented hours, late and undertime values.
C8_ReadmeExample ==
    (pc = "returned" /\ call = ReadmeRequest)
        => /\ ret.status = 200
           /\ ret.json.data.totalWorkedHours = "10.25"
           /\ ret.json.data.regularHours = "8.75"
           /\ ret.json.data.overtimeHours = "1.50"
           /\ ret.json.data.nightDiffHours = "0.00"
           /\ ret.json.data.lateMinutes = 15
           /\ ret.json.data.undertimeMinutes = 0

\* the calendar day an ISO string falls on in a zone, from its written fields
IsoLocalDay(iso, timezone) ==
    (iso.d * 1440 + iso.h * 60 + iso.mi - iso.off + UtcOffset(timezone)) \div 1440

\* hours and minutes of an "HH:MM" string
ClockOf(timeString) ==
    <<Number(SubSeq(timeString, 1, 2)), Number(SubSeq(timeString, 4, 5))>>

\* C9: shiftStart and shiftEnd lie on the calendar day punchIn has in the
\* schedule's zone, at the wall-clock times schedule.start and schedule.end of
\* that zone, to the millisecond.
C9_ShiftOnPunchInLocalDay ==
    (CalcReturned /\ call.attendance.punchIn.kind = "iso")
        => LET day == IsoLocalDay(call.attendance.punchIn, Zone)
               s == ClockOf(call.schedule.start)
               e == ClockOf(call.schedule.end)
           IN /\ LocalMs(ShiftStartT) = day * MsPerDay + s[1] * MsPerHour + s[2] * MsPerMinute
              /\ LocalMs(ShiftEndT) = day * MsPerDay + e[1] * MsPerHour + e[2] * MsPerMinute

\* punchIn's day in the zone differs from its day in UTC, from the day it was
\* written with and from punchOut's day in the zone
C9_Witness ==
    /\ CalcReturned /\ BothParsed
    /\ PunchInT.t < PunchOutT.t
    /\ LET day == IsoLocalDay(call.attendance.punchIn, Zone)
       IN /\ day # IsoLocalDay(call.attendance.punchIn, "UTC")
          /\ day # call.attendance.punchIn.d
          /\ day # IsoLocalDay(call.attendance.punchOut, Zone)
          /\ date(ShiftStartT) = day

BatchReturned == pc = "returned" /\ call.op = "batch"

\* C10: the batch result has one entry per record, in order; entry i keeps
\* the fields of record i and carries either metrics and a null error or
\* null metrics and an error.
C10_BatchOneEntryPerRecord ==
    BatchReturned
        => /\ Len(ret) = Len(call.attendanceRecords)
           /\ \A i \in 1..Len(call.attendanceRecords) :
                LET record == call.attendanceRecords[i]
                    entry == ret[i]
                IN /\ DOMAIN entry = DOMAIN record \cup {"metrics", "calculationError"}
                   /\ \A f \in DOMAIN record : entry[f] = record[f]
                   /\ (entry.metrics = null) # (entry.calculationError = null)

\* three records, the second without punchOut: two entries with metrics,
\* one with an error
C10_Witness ==
    /\ BatchReturned
    /\ Len(call.attendanceRecords) = 3
    /\ call.attendanceRecords[2].punchOut = undefined
    /\ ret[1].metrics # null /\ ret[1].calculationError = null
    /\ ret[2].metrics = null /\ ret[2].calculationError # null
    /\ ret[3].metrics # null /\ ret[3].calculationError = null

\* C11: a failing record changes nothing for the others: every record that
\* calculateTimeMetrics accepts on its own has, at its own position of the
\* batch result, exactly the metrics of that single call and no error.
C11_BatchIsolatesFailures ==
    BatchReturned
        => \A i \in 1..Len(call.attendanceRecords) :
              LET single == calculateTimeMetrics(call.attendanceRecords[i], call.schedule)
              IN ~single.threw
                    => /\ i \in DOMAIN ret
                       /\ ret[i].metrics = single.value
                       /\ ret[i].calculationError = null

\* a failing record stands before and after accepted ones
C11_Witness ==
    /\ BatchReturned
    /\ Len(call.attendanceRecords) = 3
    /\ call.schedule = ManilaDay
    /\ falsy(call.attendanceRecords[1].punchOut)
    /\ falsy(call.attendanceRecords[3].punchOut)
    /\ ret[1].calculationError = Str("Both punchIn and punchOut are required")
    /\ ret[2].metrics # null
    /\ ret[2].metrics.totalWorkedMinutes = 615

\* C12: calculateTimeMetrics fails, and returns no metrics record, whenever
\* punchIn or punchOut is absent or cannot be parsed as an instant.
C12_AbsentOrUnparseableFails ==
    (/\ pc = "returned" /\ call.op = "calculate"
     /\ \/ call.attendance.punchIn.kind # "iso"
        \/ call.attendance.punchOut.kind # "iso")
        => ret.threw

C15_ScanEqualsWindowOverlap ==
    (CalcReturned /\ BothParsed)
        => ret.value.nightDiffMinutes = NightWindowMs(PunchInT, PunchOutT) \div MsPerMinute

PairReturned == pc = "returned" /\ call.op = "pair"

\* C16: extending the punch interval, at either end, by an interval that lies
\* inside the 22:00-06:00 window never lowers the night-differential minutes.
C16_NightDiffMonotonic ==
    (PairReturned /\ call.rel = "extended")
        => ret[2].value.nightDiffMinutes >= ret[1].value.nightDiffMinutes

\* punch-in moved earlier by less than a minute, before a punch-out that cuts
\* the next night's window
C16_Witness ==
    /\ PairReturned /\ call.rel = "extended"
    /\ call.first.attendance.punchIn = Iso(1, 5, 0, 5, 0, 480)
    /\ call.second.attendance.punchIn = Iso(1, 0, 0, 0, 0, 480)
    /\ call.first.attendance.punchOut = Iso(1, 22, 0, 30, 0, 480)
    /\ ret[1].value.nightDiffMinutes = 61
    /\ ret[2].value.nightDiffMinutes = 361

\* C17: late minutes are the whole minutes from shiftStart to punchIn, 0 for
\* a punchIn at or before shiftStart, and never negative.
C17_LateIsTimeAfterShiftStart ==
    (CalcReturned /\ call.attendance.punchIn.kind = "iso")
        => LET after == PunchInT.t - ShiftStartT.t
           IN /\ ret.value.lateMinutes = IF after > 0 THEN after \div MsPerMinute ELSE 0
              /\ ret.value.lateMinutes >= 0

\* an early arrival
C17_Witness ==
    /\ CalcReturned /\ BothParsed
    /\ PunchInT.t < ShiftStartT.t - 10 * MsPerMinute
    /\ ret.value.lateMinutes = 0

\* C18: undertime minutes are the whole minutes from punchOut to the shiftEnd
\* of punch-in's local day, 0 for a punchOut at or after it, never negative.
C18_UndertimeIsTimeBeforeShiftEnd ==
    (CalcReturned /\ BothParsed)
        => LET before == ShiftEndT.t - PunchOutT.t
           IN /\ ret.value.undertimeMinutes = IF before > 0 THEN before \div MsPerMinute ELSE 0
              /\ ret.value.undertimeMinutes >= 0
              /\ date(ShiftEndT) = date(PunchInT)

\* a punch-out on the next day, at an earlier clock time than schedule.end
C18_Witness ==
    /\ CalcReturned /\ BothParsed
    /\ date(PunchOutT) = date(PunchInT) + 1
    /\ (LocalMs(PunchOutT) % MsPerDay) < (LocalMs(ShiftEndT) % MsPerDay)
    /\ ret.value.undertimeMinutes = 0

\* C19: a punch pair with punchOut at or before punchIn is answered with a
\* metrics record: the total is the (not clamped) whole-minute difference,
\* at most 0, and regular and night-differential minutes are 0.
C19_InvertedPairsAccepted ==
    (/\ pc = "returned" /\ call.op = "calculate" /\ BothParsed
     /\ PunchOutT.t <= PunchInT.t)
        => /\ ~ret.threw
           /\ ret.value.totalWorkedMinutes = -((PunchInT.t - PunchOutT.t) \div MsPerMinute)
           /\ ret.value.totalWorkedMinutes <= 0
           /\ ret.value.regularMinutes = 0
           /\ ret.value.nightDiffMinutes = 0

\* punch-out a whole day before punch-in
C19_Witness ==
    /\ CalcReturned
    /\ call.schedule = ManilaDay
    /\ call.attendance = Attendance(Iso(2, 9, 15, 0, 0, 480), Iso(1, 9, 15, 0, 0, 480))
    /\ ret.value.totalWorkedMinutes = -1440
    /\ ret.value.totalWorkedHours = "-24.00"

\* C20: a call without schedule.timezone returns what the same call with
\* timezone "UTC" returns: the shift window stands on punchIn's UTC calendar
\* day at the schedule's clock times of UTC, and the night-differential hours
\* are those of the UTC clock (compared, for punches on whole minutes, with
\* the nightly windows of UTC).
C20_OmittedTimezoneIsUtc ==
    (PairReturned /\ call.rel = "timezone")
        => /\ ret[1] = ret[2]
           /\ (~ret[1].threw /\ call.first.attendance.punchIn.kind = "iso")
                 => LET punchIn == call.first.attendance.punchIn
                        start == ClockOf(call.first.schedule.start)
                        end == ClockOf(call.first.schedule.end)
                        day == IsoLocalDay(punchIn, "UTC")
                    IN /\ ret[1].value.shiftStart = Iso(day, start[1], start[2], 0, 0, 0)
                       /\ ret[1].value.shiftEnd = Iso(day, end[1], end[2], 0, 0, 0)
           /\ (/\ ~ret[1].threw
               /\ call.first.attendance.punchIn.kind = "iso"
               /\ call.first.attendance.punchOut.kind = "iso"
               /\ call.first.attendance.punchIn.s = 0 /\ call.first.attendance.punchIn.ms = 0
               /\ call.first.attendance.punchOut.s = 0 /\ call.first.attendance.punchOut.ms = 0)
                 => ret[1].value.nightDiffMinutes * MsPerMinute
                      = NightWindowMs(momentTz(call.first.attendance.punchIn, "UTC"),
                                      momentTz(call.first.attendance.punchOut, "UTC"))

\* a punch-in whose UTC day is the day before the one it was written with,
\* and night hours of the UTC clock
C20_Witness ==
    /\ PairReturned /\ call.rel = "timezone"
    /\ ~ret[1].threw
    /\ call.first.attendance.punchIn = Iso(2, 7, 0, 0, 0, 480)
    /\ call.first.attendance.punchOut = Iso(2, 9, 15, 0, 0, 480)
    /\ ret[1].value.shiftStart.d = 1
    /\ ret[1].value.nightDiffMinutes = 135

SequenceRunning == call.op = "sequence" /\ pc \in {"running", "returned"}

HttpReturned == pc = "returned" /\ call.op = "http"

\* punchIn, punchOut, schedule, schedule.start or schedule.end is missing
MissingInput(body) ==
    \/ falsy(body.punchIn) \/ falsy(body.punchOut)
    \/ body.schedule = noSchedule
    \/ body.schedule.start = noTime \/ body.schedule.end = noTime

\* C22: a request that lacks punchIn, punchOut, schedule, schedule.start or
\* schedule.end is answered with status 400 and an error, without a call of
\* the calculator; a success response is sent only for a request that lacks
\* none of them, and it carries the metrics of the calculator.
C22_MissingInputIs400 ==
    HttpReturned
        => /\ MissingInput(call.body)
                => /\ ret.status = 400
                   /\ DOMAIN ret.json = {"error"}
                   /\ ~ret.invoked
           /\ (ret.status = 200 \/ "success" \in DOMAIN ret.json)
                => /\ ~MissingInput(call.body)
                   /\ ret.invoked
                   /\ ret.json.success = TRUE
                   /\ ret.json.data
                        = calculateTimeMetrics(Attendance(call.body.punchIn, call.body.punchOut),
                                               call.body.schedule).value

\* both punches present, the schedule without its end
C22_Witness ==
    /\ HttpReturned
    /\ call.body.punchIn.kind = "iso" /\ call.body.punchOut.kind = "iso"
    /\ call.body.schedule # noSchedule
    /\ call.body.schedule.end = noTime
    /\ ret.status = 400

\* both punches are written without seconds and milliseconds
WholeMinutes ==
    /\ call.attendance.punchIn.s = 0 /\ call.attendance.punchIn.ms = 0
    /\ call.attendance.punchOut.s = 0 /\ call.attendance.punchOut.ms = 0

\* C23: for a schedule whose start is before its end and a punch pair, on
\* whole minutes, with punchIn not after punchOut, the regular minutes are
\* the scheduled minutes less the late and the undertime minutes, or 0 when
\* that is negative.
C23_RegularIsScheduledLessLateAndUndertime ==
    (/\ CalcReturned /\ BothParsed /\ WholeMinutes
     /\ ShiftStartT.t < ShiftEndT.t
     /\ PunchInT.t <= PunchOutT.t)
        => ret.value.regularMinutes
             = Max(0, ScheduledMinutes - ret.value.lateMinutes - ret.value.undertimeMinutes)

\* a late arrival and an early departure, and a punch pair after the shift
C23_Witness ==
    /\ CalcReturned /\ BothParsed /\ WholeMinutes
    /\ ShiftStartT.t < ShiftEndT.t
    /\ PunchInT.t < PunchOutT.t
    /\ ret.value.lateMinutes > 0 /\ ret.value.undertimeMinutes > 0
    /\ ret.value.regularMinutes > 0
    /\ ret.value.regularMinutes < ScheduledMinutes

\* C24: for every punch pair with punchIn not after punchOut, also with
\* seconds and shorter than a minute, the night-differential minutes are at
\* most the total worked minutes.
C24_NightDiffWithinTotal ==
    (CalcReturned /\ BothParsed /\ PunchInT.t <= PunchOutT.t)
        => ret.value.nightDiffMinutes <= ret.value.totalWorkedMinutes

(***************************************************************************)
(* Properties of the stored documents.  Totals are read as numbers: hours  *)
(* in hundredths, late and undertime in minutes; a summary that does not   *)
(* exist counts as all zero.                                               *)
(***************************************************************************)
TotalFields == HourFields \cup {"totalLateMinutes", "totalUndertimeMinutes"}

ZeroTotals == [f \in TotalFields |-> 0]

\* the totals a daily summary document holds
SummaryTotals(summary) ==
    IF summary.exists
    THEN [f \in TotalFields |-> IF f \in HourFields THEN parseFloat(summary[f]) ELSE summary[f]]
    ELSE ZeroTotals

\* what the metrics of one punch contribute to the totals
MetricsTotals(metrics) ==
    [f \in TotalFields |->
        CASE f \in HourFields -> parseFloat(metrics[f])
          [] f = "totalLateMinutes" -> metrics.lateMinutes
          [] f = "totalUndertimeMinutes" -> metrics.undertimeMinutes]

\* the sum of the metrics of the attendance documents of a type and a date
RECURSIVE MetricsSum(_, _, _)
MetricsSum(docs, type, day) ==
    IF docs = <<>> THEN ZeroTotals
    ELSE LET doc == docs[Len(docs)]
             rest == MetricsSum(SubSeq(docs, 1, Len(docs) - 1), type, day)
         IN IF doc.exists /\ doc.type = type /\ doc.date = day /\ doc.metrics # null
            THEN [f \in TotalFields |-> rest[f] + MetricsTotals(doc.metrics)[f]]
            ELSE rest

\* C25: when the admin deletes a punch with stored metrics m on a date whose
\* summary holds s, the summary afterwards holds s - m in every field (0
\* where that is negative), with late and undertime totals that are numbers,
\* or is removed when every field of s - m is 0.
C25_DeleteSubtractsFromSummary ==
    [][\A p \in DOMAIN db.attendance :
          (/\ handleDeletePunch(p)
           /\ db.attendance[p].metrics # null
           /\ db.dailySummary[db.attendance[p].date].exists)
             => LET day == db.attendance[p].date
                    s == SummaryTotals(db.dailySummary[day])
                    m == MetricsTotals(db.attendance[p].metrics)
                    expected == [f \in TotalFields |-> Max(0, s[f] - m[f])]
                    after == db'.dailySummary[day]
                IN IF expected = ZeroTotals
                   THEN ~after.exists
                   ELSE /\ after.exists
                        /\ ~isNaN(after.totalLateMinutes)
                        /\ ~isNaN(after.totalUndertimeMinutes)
                        /\ SummaryTotals(after) = expected]_vars

\* C26: when the admin edits a punch with stored metrics m_old on a date
\* whose summary holds s, and the recalculated metrics are m_new, the summary
\* of an unchanged date holds s - m_old + m_new in every field (0 where that
\* is negative); when the edit changes the date, the old date's summary holds
\* s - m_old and the new date's summary is raised by m_new.
C26_EditReplacesInSummary ==
    [][\A p \in DOMAIN db.attendance : \A e \in Edits : \A day \in Dates :
          (/\ handleSaveEdit(p, e[1], e[2], day, FALSE)
           /\ db.attendance[p].metrics # null
           /\ db.dailySummary[db.attendance[p].date].exists)
             => LET old == db.attendance[p].date
                    s == SummaryTotals(db.dailySummary[old])
                    mOld == MetricsTotals(db.attendance[p].metrics)
                    mNew == MetricsTotals(db'.attendance[p].metrics)
                    there == SummaryTotals(db.dailySummary[day])
                IN IF day = old
                   THEN SummaryTotals(db'.dailySummary[old])
                            = [f \in TotalFields |-> Max(0, s[f] - mOld[f] + mNew[f])]
                   ELSE /\ SummaryTotals(db'.dailySummary[old])
                              = [f \in TotalFields |-> Max(0, s[f] - mOld[f])]
                        /\ SummaryTotals(db'.dailySummary[day])
                              = [f \in TotalFields |-> there[f] + mNew[f]]]_vars

\* no handler stands at an await
Quiet == tasks = <<>>

\* C27: the daily summary accumulates every punch-out, also when the
\* punch-outs of two tabs run updateDailySummary at the same time: once all
\* handlers have ended, the summary of each date holds the sum of the metrics
\* of the punch-outs recorded for that date.
C27_SummaryIsSumOfPunchOuts ==
    Quiet => \A day \in Dates :
                SummaryTotals(db.dailySummary[day])
                    = MetricsSum(db.attendance, "punch_out", day)

\* C28: the PunchClock never has two open attendance records (type
\* punch_in) at once, and no session is completed more than once (at most
\* one punch_out record refers to it).
C28_OneOpenRecordPerSession ==
    /\ Cardinality({i \in DOMAIN db.attendance : db.attendance[i].type = "punch_in"}) <= 1
    /\ \A id \in DOMAIN db.attendance :
          Cardinality({i \in DOMAIN db.attendance :
                          /\ db.attendance[i].type = "punch_out"
                          /\ db.attendance[i].relatedSessionId = id}) <= 1

\* C29: with handlers that run one after the other and no admin, the summary
\* of each date holds the sum of the metrics of the completed attendance
\* records that carry that date, also for sessions that end on the day after
\* they started.
C29_SummaryUnderRecordDate ==
    Quiet => \A day \in Dates :
                SummaryTotals(db.dailySummary[day])
                    = MetricsSum(db.attendance, "completed", day)

\* C30: when the calculation request of a punch-out is rejected or answered
\* with a status that is not ok, the handler goes on without metrics: it sets
\* the session's attendance record to type completed with the duration and
\* no metrics, adds the punch_out record, then ends with the PunchClock not
\* punched in and without a current session; no step of it creates or
\* changes a daily summary.
C30_PunchOutCompletesWithoutMetrics ==
    [][\A k \in DOMAIN tasks :
          LET task == tasks[k]
              id == task.session.id
          IN /\ (\/ FetchSettled(k, TRUE)
                  \/ (FetchSettled(k, FALSE) /\ tabs[task.tab].user.schedule # noSchedule))
                    => tasks'[k].metrics = null /\ tasks'[k].at = "updateDoc"
             /\ (task.fn = "handlePunchOut" /\ task.at # "fetch" /\ task.metrics = null)
                    => /\ task.at \in {"updateDoc", "addDoc"}
                       /\ db'.dailySummary = db.dailySummary
                       /\ (task.at = "updateDoc" /\ tasks' # tasks)
                             => /\ tasks'[k].at = "addDoc"
                                /\ db'.attendance[id].type = "completed"
                                /\ db'.attendance[id].duration = task.duration
                                /\ db'.attendance[id].metrics = null
                       /\ (task.at = "addDoc" /\ tasks' # tasks)
                             => /\ tasks' = <<>>
                                /\ ~tabs'[task.tab].isPunchedIn
                                /\ tabs'[task.tab].currentSession = noSession
                                /\ db'.attendance[id].type = "completed"
                                /\ db'.attendance[id].metrics = null
                                /\ db'.attendance[Len(db'.attendance)].type = "punch_out"]_vars

\* a session of 09:15 to 23:30 ended by a punch-out whose request got no
\* metrics: completed, 51300 seconds, no metrics, no summary, not punched in
C30_Witness ==
    /\ Quiet
    /\ Len(db.attendance) = 2
    /\ db.attendance[1].type = "completed"
    /\ db.attendance[1].duration = 51300
    /\ db.attendance[1].metrics = null
    /\ db.attendance[2].type = "punch_out"
    /\ \A day \in Dates : ~db.dailySummary[day].exists
    /\ ~tabs[1].isPunchedIn /\ tabs[1].currentSession = noSession
    /\ tabs[1].user.schedule = noSchedule

====
